---- MODULE Spec2Model ----
(***************************************************************************)
(* A model of chicago_public_schools_data_preprocessing.py: the classes    *)
(* Coordinate, School and CPS.                                             *)
(*                                                                         *)
(* Text that the program takes apart (the School_ID, Grades, Lat and Long  *)
(* fields of a row) is a sequence of one-character strings; text that it   *)
(* only stores, compares or concatenates is a string.                      *)
(*                                                                         *)
(* A Python float is modelled in fixed point: [nan |-> FALSE, v |-> n] is  *)
(* the number n / SCALE, and NaN is the float that float("nan") yields.    *)
(* Infinities and exponents are outside the alphabet of the modelled       *)
(* fields.  The functions of Python's math module are computed by their    *)
(* power series on the range of angles the model uses (|x| < 1/2).         *)
(***************************************************************************)
EXTENDS Integers, Sequences, FiniteSets, TLC

\* ------------------------------------------------------------------ bounds
MaxRows == 2

\* ------------------------------------------------------------- characters
Digits == {"0", "1", "2", "3", "4", "5", "6", "7", "8", "9"}

DigitVal(c) ==
    CASE c = "0" -> 0 [] c = "1" -> 1 [] c = "2" -> 2 [] c = "3" -> 3
      [] c = "4" -> 4 [] c = "5" -> 5 [] c = "6" -> 6 [] c = "7" -> 7
      [] c = "8" -> 8 [] c = "9" -> 9

DigitChr(d) ==
    CASE d = 0 -> "0" [] d = 1 -> "1" [] d = 2 -> "2" [] d = 3 -> "3"
      [] d = 4 -> "4" [] d = 5 -> "5" [] d = 6 -> "6" [] d = 7 -> "7"
      [] d = 8 -> "8" [] d = 9 -> "9"

Min(a, b) == IF a <= b THEN a ELSE b

\* leading and trailing blanks removed, as int() and float() do first
RECURSIVE LStrip(_)
LStrip(s) == IF s # <<>> /\ Head(s) = " " THEN LStrip(Tail(s)) ELSE s

RECURSIVE RStrip(_)
RStrip(s) ==
    IF s # <<>> /\ s[Len(s)] = " " THEN RStrip(SubSeq(s, 1, Len(s) - 1)) ELSE s

Strip(s) == RStrip(LStrip(s))

AllDigits(s) == \A i \in 1..Len(s) : s[i] \in Digits

\* the value of a sequence of decimal digits
RECURSIVE DigitsVal(_)
DigitsVal(s) ==
    IF s = <<>> THEN 0
    ELSE 10 * DigitsVal(SubSeq(s, 1, Len(s) - 1)) + DigitVal(s[Len(s)])

HasSign(s) == s # <<>> /\ Head(s) \in {"-", "+"}
Unsigned(s) == IF HasSign(s) THEN Tail(s) ELSE s
SignOf(s) == IF s # <<>> /\ Head(s) = "-" THEN -1 ELSE 1

\* int(text): [ok |-> TRUE, v |-> n], or ok = FALSE where int raises ValueError
ParseInt(s) ==
    LET body == Unsigned(Strip(s))
    IN  IF body # <<>> /\ AllDigits(body)
        THEN [ok |-> TRUE, v |-> SignOf(Strip(s)) * DigitsVal(body)]
        ELSE [ok |-> FALSE, v |-> 0]

\* ------------------------------------------------------------------ floats
SCALE == 10 ^ 4
FracDigits == <<1000, 100, 10, 1>>

F(n) == [nan |-> FALSE, v |-> n]
NaN == [nan |-> TRUE, v |-> 0]

\* integer division rounding toward zero, the same for x and -x
TDiv(a, b) == IF a >= 0 THEN a \div b ELSE -((-a) \div b)

FSub(a, b) == IF a.nan \/ b.nan THEN NaN ELSE F(a.v - b.v)
FAdd(a, b) == IF a.nan \/ b.nan THEN NaN ELSE F(a.v + b.v)
FMul(a, b) == IF a.nan \/ b.nan THEN NaN ELSE F(TDiv(a.v * b.v, SCALE))
FDiv(a, b) == IF a.nan \/ b.nan THEN NaN ELSE F(TDiv(a.v * SCALE, b.v))
\* a float times or divided by a Python int
FMulInt(a, n) == IF a.nan THEN NaN ELSE F(a.v * n)
FDivInt(a, n) == IF a.nan THEN NaN ELSE F(TDiv(a.v, n))
\* a > b on floats: False whenever either side is NaN
FGt(a, b) == ~a.nan /\ ~b.nan /\ a.v > b.v

\* the position of the first "." of s, or 0
DotAt(s) ==
    IF \E i \in 1..Len(s) : s[i] = "."
    THEN CHOOSE i \in 1..Len(s) : s[i] = "." /\ \A j \in 1..(i - 1) : s[j] # "."
    ELSE 0

\* the value, in units of 1/SCALE, of the digits after the decimal point
RECURSIVE FracVal(_, _)
FracVal(s, i) ==
    IF i > Len(s) \/ i > Len(FracDigits) THEN 0
    ELSE DigitVal(s[i]) * FracDigits[i] + FracVal(s, i + 1)

\* float(text): [ok |-> TRUE, f |-> the float], or ok = FALSE where float
\* raises ValueError
ParseFloat(s) ==
    LET t    == Strip(s)
        body == Unsigned(t)
        dot  == DotAt(body)
        ip   == IF dot = 0 THEN body ELSE SubSeq(body, 1, dot - 1)
        fp   == IF dot = 0 THEN <<>> ELSE SubSeq(body, dot + 1, Len(body))
    IN  IF body = <<"n", "a", "n">> THEN [ok |-> TRUE, f |-> NaN]
        ELSE IF AllDigits(ip) /\ AllDigits(fp) /\ Len(ip) + Len(fp) >= 1
        THEN [ok |-> TRUE,
              f  |-> F(SignOf(t) * (DigitsVal(ip) * SCALE + FracVal(fp, 1)))]
        ELSE [ok |-> FALSE, f |-> NaN]

\* ------------------------------------------------------------- math module
PI == 31416

Sin(x) ==
    LET x2 == FMul(x, x)
        x3 == FMul(x2, x)
        x5 == FMul(x3, x2)
    IN  FAdd(FSub(x, FDivInt(x3, 6)), FDivInt(x5, 120))

Cos(x) ==
    LET x2 == FMul(x, x)
        x4 == FMul(x2, x2)
        x6 == FMul(x4, x2)
    IN  FSub(FAdd(FSub(F(SCALE), FDivInt(x2, 2)), FDivInt(x4, 24)), FDivInt(x6, 720))

Pow2(x) == FMul(x, x)

\* the integer square root of n, between lo and hi (lo * lo <= n < hi * hi)
RECURSIVE ISqrt(_, _, _)
ISqrt(n, lo, hi) ==
    IF hi - lo <= 1 THEN lo
    ELSE LET mid == (lo + hi) \div 2
         IN  IF mid * mid <= n THEN ISqrt(n, mid, hi) ELSE ISqrt(n, lo, mid)

Sqrt(x) == IF x.nan THEN NaN ELSE F(ISqrt(x.v * SCALE, 0, 2 * SCALE))

Asin(x) ==
    LET x2 == FMul(x, x)
        x3 == FMul(x2, x)
        x5 == FMul(x3, x2)
        x7 == FMul(x5, x2)
    IN  FAdd(FAdd(FAdd(x, FDivInt(x3, 6)), FDivInt(FMulInt(x5, 3), 40)),
             FDivInt(FMulInt(x7, 15), 336))

\* --------------------------------------------------------------- Coordinate
EARTH_RADIUS == 3961

Coordinate(latitude, longitude) == [latitude |-> latitude, longitude |-> longitude]

degree_to_radian(degree_latitude_or_longitude) ==
    FDivInt(FMul(degree_latitude_or_longitude, F(PI)), 180)

fromdegrees(latitude, longitude) ==
    Coordinate(degree_to_radian(latitude), degree_to_radian(longitude))

distance(self, coord) ==
    LET latitude_diff  == FSub(self.latitude, coord.latitude)
        longitude_diff == FSub(self.longitude, coord.longitude)
    IN  FMulInt(
            Asin(Sqrt(FAdd(Pow2(Sin(FDivInt(latitude_diff, 2))),
                           FMul(FMul(Cos(self.latitude), Cos(coord.latitude)),
                                Pow2(Sin(FDivInt(longitude_diff, 2))))))),
            2 * EARTH_RADIUS)

as_degrees(self) ==
    <<FDiv(FMulInt(self.latitude, 180), F(PI)),
      FDiv(FMulInt(self.longitude, 180), F(PI))>>

\* text of a float as repr() gives it, and of a pair of floats as str() does
RECURSIVE NatStr(_)
NatStr(n) == IF n < 10 THEN DigitChr(n) ELSE NatStr(n \div 10) \o DigitChr(n % 10)

\* the decimals of m / SCALE (0 <= m < SCALE), without trailing zeros
RECURSIVE FracStr(_, _)
FracStr(m, i) ==
    IF i > Len(FracDigits) \/ (m = 0 /\ i > 1) THEN ""
    ELSE DigitChr(m \div FracDigits[i]) \o FracStr(m % FracDigits[i], i + 1)

Repr(x) ==
    IF x.nan THEN "nan"
    ELSE LET a == IF x.v < 0 THEN -x.v ELSE x.v
         IN  (IF x.v < 0 THEN "-" ELSE "")
                 \o NatStr(a \div SCALE) \o "." \o FracStr(a % SCALE, 1)

TupleStr(t) == "(" \o Repr(t[1]) \o ", " \o Repr(t[2]) \o ")"

\* show_map giving the pair in radians
show_map_url_radians(self) ==
    "http://maps.google.com/maps?q=" \o TupleStr(<<self.latitude, self.longitude>>)

\* 'http://maps.google.com/maps?q={}'.format(Coordinate.as_degrees(self))
show_map_url(self) == "http://maps.google.com/maps?q=" \o TupleStr(as_degrees(self))

\* ------------------------------------------------------------------- School
\* str.split(sep): the pieces of s between the occurrences of sep, found
\* from the left
SepAt(s, i, sep) ==
    /\ i + Len(sep) - 1 <= Len(s)
    /\ \A j \in 1..Len(sep) : s[i + j - 1] = sep[j]

RECURSIVE SplitFrom(_, _, _, _)
SplitFrom(s, i, sep, piece) ==
    IF i > Len(s) THEN <<piece>>
    ELSE IF SepAt(s, i, sep)
         THEN <<piece>> \o SplitFrom(s, i + Len(sep), sep, <<>>)
         ELSE SplitFrom(s, i + 1, sep, Append(piece, s[i]))

\* split with every piece stripped of the blanks around it
split_trimmed(s, sep) ==
    [k \in 1..Len(SplitFrom(s, 1, sep, <<>>)) |-> Strip(SplitFrom(s, 1, sep, <<>>)[k])]

split(s, sep) == SplitFrom(s, 1, sep, <<>>)

\* dict(zip(header, content)): pairs up to the shorter length, a later
\* column of the same name replacing an earlier one
DictZip(header, content) ==
    LET n == Min(Len(header), Len(content))
    IN  [k \in {header[i] : i \in 1..n} |->
            content[CHOOSE i \in 1..n :
                        header[i] = k /\ \A j \in (i + 1)..n : header[j] # k]]

\* the exception School.__init__ raises on data, "" when it raises none
SchoolRaises(data) ==
    IF "School_ID" \notin DOMAIN data THEN "KeyError"
    ELSE IF ~ParseInt(data["School_ID"]).ok THEN "ValueError"
    ELSE IF \E k \in {"Short_Name", "Network", "Address", "Zip", "Phone",
                      "Grades", "Lat"} : k \notin DOMAIN data THEN "KeyError"
    ELSE IF ~ParseFloat(data["Lat"]).ok THEN "ValueError"
    ELSE IF "Long" \notin DOMAIN data THEN "KeyError"
    ELSE IF ~ParseFloat(data["Long"]).ok THEN "ValueError"
    ELSE ""

School(data) ==
    [id       |-> ParseInt(data["School_ID"]).v,
     name     |-> data["Short_Name"],
     network  |-> data["Network"],
     address  |-> data["Address"],
     zip      |-> data["Zip"],
     phone    |-> data["Phone"],
     grades   |-> split(data["Grades"], <<",", " ">>),
     location |-> fromdegrees(ParseFloat(data["Lat"]).f, ParseFloat(data["Long"]).f)]

\* ---------------------------------------------------------------------- CPS
DEFAULT_RADIUS == F(SCALE)

\* nearby_schools with the comparison turned round
RECURSIVE nearby_schools_flipped(_, _, _)
nearby_schools_flipped(schools, coord, radius) ==
    IF schools = <<>> THEN <<>>
    ELSE LET school == Head(schools)
             current_distance == distance(coord, school.location)
         IN  IF FGt(radius, current_distance)
             THEN nearby_schools_flipped(Tail(schools), coord, radius)
             ELSE <<school>> \o nearby_schools_flipped(Tail(schools), coord, radius)

RECURSIVE nearby_schools(_, _, _)
nearby_schools(schools, coord, radius) ==
    IF schools = <<>> THEN <<>>
    ELSE LET school == Head(schools)
             current_distance == distance(coord, school.location)
         IN  IF FGt(current_distance, radius)
             THEN nearby_schools(Tail(schools), coord, radius)
             ELSE <<school>> \o nearby_schools(Tail(schools), coord, radius)

SetOf(seq) == {seq[i] : i \in 1..Len(seq)}

\* get_schools_by_grade keeping the schools that teach any of the grades
RECURSIVE get_schools_by_grade_any(_, _)
get_schools_by_grade_any(schools, grades) ==
    IF schools = <<>> THEN <<>>
    ELSE LET school == Head(schools)
         IN  IF SetOf(grades) \cap SetOf(school.grades) = {}
             THEN get_schools_by_grade_any(Tail(schools), grades)
             ELSE <<school>> \o get_schools_by_grade_any(Tail(schools), grades)

RECURSIVE get_schools_by_grade(_, _)
get_schools_by_grade(schools, grades) ==
    IF schools = <<>> THEN <<>>
    ELSE LET school == Head(schools)
             input_grades == grades
         IN  IF ~(SetOf(input_grades) \subseteq SetOf(school.grades))
             THEN get_schools_by_grade(Tail(schools), grades)
             ELSE <<school>> \o get_schools_by_grade(Tail(schools), grades)

\* get_schools_by_network comparing without regard to case
Lower(network) == IF network = "N1" THEN "n1" ELSE IF network = "N" THEN "n" ELSE network

RECURSIVE get_schools_by_network_nocase(_, _)
get_schools_by_network_nocase(schools, network) ==
    IF schools = <<>> THEN <<>>
    ELSE LET school == Head(schools)
         IN  IF Lower(school.network) # Lower(network)
             THEN get_schools_by_network_nocase(Tail(schools), network)
             ELSE <<school>> \o get_schools_by_network_nocase(Tail(schools), network)

RECURSIVE get_schools_by_network(_, _)
get_schools_by_network(schools, network) ==
    IF schools = <<>> THEN <<>>
    ELSE LET school == Head(schools)
         IN  IF school.network # network
             THEN get_schools_by_network(Tail(schools), network)
             ELSE <<school>> \o get_schools_by_network(Tail(schools), network)

\* ------------------------------------------------------------ state machine
VARIABLES
    fs,          \* the file system: file name -> [exists, rows]; rows as csv.reader yields them
    catalogs,    \* the caller's CPS(filename) results, by filename argument
    pc,          \* position of the running constructor: "idle" (none), "header", "rows"
    filename,    \* the argument of the running constructor
    csv_reader,  \* the rows the reader has still to yield
    header,      \* header, once read
    schools,     \* self.schools of the object under construction
    call,        \* the last query made: operation, object and arguments
    result,      \* what that query returned
    browser      \* the URLs the last show_map gave to webbrowser.open

vars == <<fs, catalogs, pc, filename, csv_reader, header, schools, call, result, browser>>

NONE == "None"
FileArgs == {"schools.csv", "other.csv"}

Unbuilt == [status |-> "unbuilt", error |-> "", schools |-> <<>>]
Raised(e) == [status |-> "raised", error |-> e, schools |-> <<>>]
Built(ss) == [status |-> "built", error |-> "", schools |-> ss]

NoFile == [exists |-> FALSE, rows |-> <<>>]
File(rows) == [exists |-> TRUE, rows |-> rows]

\* ------------------------------------------------------------------ inputs
FullHeader ==
    <<"School_ID", "Short_Name", "Network", "Address", "Zip", "Phone", "Grades", "Lat", "Long">>
\* a header without the Network column
OtherHeader ==
    <<"School_ID", "Short_Name", "Net", "Address", "Zip", "Phone", "Grades", "Lat", "Long">>

Row(id, name, network, grades, lat, long) ==
    <<id, name, network, "1 Main St", "60601", "555-0100", grades, lat, long>>

RowA == Row(<<"1">>, "A", "N1", <<"K", ",", " ", "1">>, <<"0">>, <<"0">>)
RowB == Row(<<"2">>, "B", "n1", <<"K">>, <<"5">>, <<"0">>)
RowC == Row(<<" ", "3">>, "C", "N1", <<>>, <<"n", "a", "n">>, <<"0">>)
RowD == Row(<<"4">>, "D", "N", <<"K", ",", " ", " ", "1">>, <<"0", ".", "0">>, <<"-", "5">>)

RowPool ==
    { RowA, RowB, RowC, RowD,
      Row(<<"x">>, "E", "N1", <<"K">>, <<"0">>, <<"0">>),
      Row(<<"5">>, "E", "N1", <<"K">>, <<"x">>, <<"0">>),
      Row(<<"5">>, "E", "N1", <<"K">>, <<"0">>, <<"5", ".", ".">>),
      SubSeq(RowA, 1, 7) }

SeqsUpTo(S, n) == UNION {[1..k -> S] : k \in 0..n}

Files ==
    {NoFile, File(<<>>)}
        \cup {File(<<h>> \o rs) : h \in {FullHeader, OtherHeader}, rs \in SeqsUpTo(RowPool, MaxRows)}

OtherFiles == {NoFile, File(<<FullHeader, RowB>>)}

QueryCoords ==
    { fromdegrees(F(0), F(0)), fromdegrees(F(5 * SCALE), F(0)), fromdegrees(F(0), F(-5 * SCALE)) }

\* 0, the distance between two of the points, just less and just more
Radii ==
    LET d == distance(fromdegrees(F(0), F(0)), fromdegrees(F(5 * SCALE), F(0)))
    IN  {F(0), F(d.v - 1), d, F(d.v + 1)}

GradeNames == {<<"K">>, <<"1">>}
MaxGrades == 2
GradeArgs == SeqsUpTo(GradeNames, MaxGrades)

Networks == {"N1", "n1", "N", "N2"}

Init ==
    /\ fs \in {[f \in FileArgs |-> IF f = "schools.csv" THEN a ELSE b] :
                   a \in Files, b \in OtherFiles}
    /\ catalogs = [f \in FileArgs |-> Unbuilt]
    /\ pc = "idle"
    /\ filename = ""
    /\ csv_reader = <<>>
    /\ header = <<>>
    /\ schools = <<>>
    /\ call = [op |-> "none"]
    /\ result = NONE
    /\ browser = <<>>

\* ------------------------------------------------------------- CPS.__init__
\* a constructor that opens the file it is given
opened_name_given(fname) == fname

\* the name of the file the constructor opens
opened_name(fname) == "schools.csv"

\* the constructor ends by raising e: the caller gets no object
Raise(fname, e) ==
    /\ catalogs' = [catalogs EXCEPT ![fname] = Raised(e)]
    /\ pc' = "idle"
    /\ csv_reader' = <<>>
    /\ header' = <<>>
    /\ schools' = <<>>

\* self.schools = []; open("schools.csv"); csv.reader(csv_file)
CPSInit(fname) ==
    /\ pc = "idle"
    /\ catalogs[fname].status = "unbuilt"
    /\ filename' = fname
    /\ IF fs[opened_name(fname)].exists
       THEN /\ schools' = <<>>
            /\ csv_reader' = fs[opened_name(fname)].rows
            /\ pc' = "header"
            /\ UNCHANGED <<catalogs, header>>
       ELSE Raise(fname, "FileNotFoundError")
    /\ UNCHANGED <<fs, call, result, browser>>

\* header = next(csv_reader)[:]
ReadHeader ==
    /\ pc = "header"
    /\ IF csv_reader = <<>>
       THEN Raise(filename, "StopIteration")
       ELSE /\ header' = Head(csv_reader)
            /\ csv_reader' = Tail(csv_reader)
            /\ pc' = "rows"
            /\ UNCHANGED <<catalogs, schools>>
    /\ UNCHANGED <<fs, filename, call, result, browser>>

\* an insertion at the front of the list
prepend(list, item) == <<item>> \o list

\* self.schools.append(current_school)
append(list, item) == Append(list, item)

\* a loop that passes over the rows School rejects
LoadLineSkipBad ==
    /\ pc = "rows"
    /\ csv_reader # <<>>
    /\ LET single_school_dict == DictZip(header, Head(csv_reader))
       IN  schools' = IF SchoolRaises(single_school_dict) # "" THEN schools
                      ELSE append(schools, School(single_school_dict))
    /\ csv_reader' = Tail(csv_reader)
    /\ UNCHANGED <<fs, catalogs, pc, header, filename, call, result, browser>>

\* one turn of "for line in csv_reader"
LoadLine ==
    /\ pc = "rows"
    /\ csv_reader # <<>>
    /\ LET content == Head(csv_reader)
           single_school_dict == DictZip(header, content)
       IN  IF SchoolRaises(single_school_dict) # ""
           THEN Raise(filename, SchoolRaises(single_school_dict))
           ELSE /\ schools' = append(schools, School(single_school_dict))
                /\ csv_reader' = Tail(csv_reader)
                /\ UNCHANGED <<catalogs, pc, header>>
    /\ UNCHANGED <<fs, filename, call, result, browser>>

\* the loop and the with block end; the caller gets the object
Return ==
    /\ pc = "rows"
    /\ csv_reader = <<>>
    /\ catalogs' = [catalogs EXCEPT ![filename] = Built(schools)]
    /\ pc' = "idle"
    /\ header' = <<>>
    /\ schools' = <<>>
    /\ UNCHANGED <<fs, filename, csv_reader, call, result, browser>>

\* ------------------------------------------------------------------ queries
\* nearby_schools keeping its result as the object's list of schools
NearbySchoolsInPlace(f, coord, given, radius) ==
    /\ pc = "idle"
    /\ catalogs[f].status = "built"
    /\ call' = [op |-> "nearby_schools", self |-> f, coord |-> coord,
                given |-> given, radius |-> radius]
    /\ result' = nearby_schools(catalogs[f].schools, coord,
                                IF given THEN radius ELSE DEFAULT_RADIUS)
    /\ catalogs' = [catalogs EXCEPT ![f].schools = result']
    /\ UNCHANGED <<fs, pc, filename, csv_reader, header, schools, browser>>

\* cps.nearby_schools(coord, radius), or cps.nearby_schools(coord) when not given
NearbySchools(f, coord, given, radius) ==
    /\ pc = "idle"
    /\ catalogs[f].status = "built"
    /\ call' = [op |-> "nearby_schools", self |-> f, coord |-> coord,
                given |-> given, radius |-> radius]
    /\ result' = nearby_schools(catalogs[f].schools, coord,
                                IF given THEN radius ELSE DEFAULT_RADIUS)
    /\ UNCHANGED <<fs, catalogs, pc, filename, csv_reader, header, schools, browser>>

\* cps.get_schools_by_grade(*grades)
GetSchoolsByGrade(f, grades) ==
    /\ pc = "idle"
    /\ catalogs[f].status = "built"
    /\ call' = [op |-> "get_schools_by_grade", self |-> f, grades |-> grades]
    /\ result' = get_schools_by_grade(catalogs[f].schools, grades)
    /\ UNCHANGED <<fs, catalogs, pc, filename, csv_reader, header, schools, browser>>

\* cps.get_schools_by_network(network)
GetSchoolsByNetwork(f, network) ==
    /\ pc = "idle"
    /\ catalogs[f].status = "built"
    /\ call' = [op |-> "get_schools_by_network", self |-> f, network |-> network]
    /\ result' = get_schools_by_network(catalogs[f].schools, network)
    /\ UNCHANGED <<fs, catalogs, pc, filename, csv_reader, header, schools, browser>>

\* coord.show_map(), coord a free Coordinate or the location of a loaded School
ShowMap(coord) ==
    /\ pc = "idle"
    /\ call' = [op |-> "show_map", self |-> coord]
    /\ browser' = <<show_map_url(coord)>>
    /\ result' = NONE
    /\ UNCHANGED <<fs, catalogs, pc, filename, csv_reader, header, schools>>

Locations ==
    UNION {{catalogs[f].schools[i].location : i \in 1..Len(catalogs[f].schools)} :
               f \in FileArgs}

Construct == \E fname \in FileArgs : CPSInit(fname)
QueryNearby ==
    \E f \in FileArgs, coord \in QueryCoords :
        \/ NearbySchools(f, coord, FALSE, DEFAULT_RADIUS)
        \/ \E radius \in Radii : NearbySchools(f, coord, TRUE, radius)
QueryGrade == \E f \in FileArgs, grades \in GradeArgs : GetSchoolsByGrade(f, grades)
QueryNetwork == \E f \in FileArgs, network \in Networks : GetSchoolsByNetwork(f, network)

Next ==
    \/ Construct
    \/ ReadHeader
    \/ LoadLine
    \/ Return
    \/ QueryNearby
    \/ QueryGrade
    \/ QueryNetwork

Spec == Init /\ [][Next]_vars

\* ---------------------------------------------- School.__init__ on any Grades
\* every Grades field of up to MaxFieldLen characters, in a file of one row
MaxFieldLen == 4
GradeAlphabet == {"K", ",", " "}
GradeFiles ==
    {File(<<FullHeader, Row(<<"1">>, "A", "N1", g, <<"0">>, <<"0">>)>>) :
         g \in SeqsUpTo(GradeAlphabet, MaxFieldLen)}

InitGrades ==
    /\ fs \in {[f \in FileArgs |-> IF f = "schools.csv" THEN a ELSE NoFile] : a \in GradeFiles}
    /\ catalogs = [f \in FileArgs |-> Unbuilt]
    /\ pc = "idle"
    /\ filename = ""
    /\ csv_reader = <<>>
    /\ header = <<>>
    /\ schools = <<>>
    /\ call = [op |-> "none"]
    /\ result = NONE
    /\ browser = <<>>

NextGrades ==
    \/ Construct
    \/ ReadHeader
    \/ LoadLine
    \/ Return
    \/ QueryGrade

SpecGrades == InitGrades /\ [][NextGrades]_vars

\* ------------------------------------------------- show_map on any Coordinate
\* files of one row whose Lat and Long are any of DegreeTexts
DegreeTexts ==
    { <<"0">>, <<"5">>, <<"-", "5">>, <<"1", ".", "5">>, <<"-", "0", ".", "2", "5">>,
      <<"n", "a", "n">> }
MapFiles ==
    {File(<<FullHeader, Row(<<"1">>, "A", "N1", <<"K">>, lat, long)>>) :
         lat \in DegreeTexts, long \in DegreeTexts}

InitMap ==
    /\ fs \in {[f \in FileArgs |-> IF f = "schools.csv" THEN a ELSE NoFile] : a \in MapFiles}
    /\ catalogs = [f \in FileArgs |-> Unbuilt]
    /\ pc = "idle"
    /\ filename = ""
    /\ csv_reader = <<>>
    /\ header = <<>>
    /\ schools = <<>>
    /\ call = [op |-> "none"]
    /\ result = NONE
    /\ browser = <<>>

Show == \E coord \in QueryCoords \cup Locations : ShowMap(coord)

NextMap ==
    \/ Construct
    \/ ReadHeader
    \/ LoadLine
    \/ Return
    \/ Show

SpecMap == InitMap /\ [][NextMap]_vars


\* ============================================================== properties
FLe(a, b) == ~a.nan /\ ~b.nan /\ a.v <= b.v

BuiltArgs == {f \in FileArgs : catalogs[f].status = "built"}

\* the rows of schools.csv after the header row
DataRows == Tail(fs["schools.csv"].rows)
RowDict(i) == DictZip(Head(fs["schools.csv"].rows), DataRows[i])

RequiredColumns ==
    {"School_ID", "Short_Name", "Network", "Address", "Zip", "Phone", "Grades", "Lat", "Long"}

\* data row i lacks a column or has a non-numeric identifier, latitude or longitude
BadRow(i) ==
    LET d == RowDict(i)
    IN  \/ \E k \in RequiredColumns : k \notin DOMAIN d
        \/ ~ParseInt(d["School_ID"]).ok
        \/ ~ParseFloat(d["Lat"]).ok
        \/ ~ParseFloat(d["Long"]).ok

HasDataRows == fs["schools.csv"].exists /\ fs["schools.csv"].rows # <<>>

\* the Records of the data rows of schools.csv, in file order
FreshSchools == [i \in 1..Len(DataRows) |-> School(RowDict(i))]

\* a is b with some elements left out
RECURSIVE IsSubseq(_, _)
IsSubseq(a, b) ==
    IF a = <<>> THEN TRUE
    ELSE IF b = <<>> THEN FALSE
    ELSE IF Head(a) = Head(b) THEN IsSubseq(Tail(a), Tail(b))
    ELSE IsSubseq(a, Tail(b))

RECURSIVE Join(_, _)
Join(pieces, sep) ==
    IF Len(pieces) = 1 THEN pieces[1]
    ELSE pieces[1] \o sep \o Join(Tail(pieces), sep)

Radius(c) == IF c.given THEN c.radius ELSE F(SCALE)

\* C1: nearby_schools returns exactly the Records at distance <= radius of the
\* point, once each and in Catalog order, radius being 1.0 when omitted
C1_WithinRadius ==
    call.op = "nearby_schools" =>
        result = SelectSeq(catalogs[call.self].schools,
                           LAMBDA s : FLe(distance(s.location, call.coord), Radius(call)))

\* C2: get_schools_by_grade returns exactly the Records whose grade set holds
\* every requested grade, in Catalog order; with no grade, the whole Catalog
C2_GradeSuperset ==
    call.op = "get_schools_by_grade" =>
        LET all == catalogs[call.self].schools
        IN  /\ result = SelectSeq(all, LAMBDA s :
                            \A k \in 1..Len(call.grades) :
                                \E i \in 1..Len(s.grades) : s.grades[i] = call.grades[k])
            /\ call.grades = <<>> => result = all

C2_Witness ==
    /\ call.op = "get_schools_by_grade"
    /\ Len(call.grades) = 2
    /\ call.grades[1] = call.grades[2]
    /\ result # <<>>
    /\ Len(result) < Len(catalogs[call.self].schools)

\* C3: get_schools_by_network returns exactly the Records whose network is
\* the given string, in Catalog order, and a list (empty if none) in every case
C3_NetworkExact ==
    call.op = "get_schools_by_network" =>
        /\ result # NONE
        /\ result = SelectSeq(catalogs[call.self].schools,
                              LAMBDA s : s.network = call.network)

C3_Witness ==
    /\ call.op = "get_schools_by_network"
    /\ call.network = "N1"
    /\ Len(result) = 1
    /\ \E i \in 1..Len(catalogs[call.self].schools) :
           catalogs[call.self].schools[i].network = "n1"

C3_WitnessEmpty ==
    /\ call.op = "get_schools_by_network"
    /\ call.network = "N2"
    /\ catalogs[call.self].schools # <<>>
    /\ result = <<>>

\* C4: when a data row of the file is bad, a finished construction has raised
\* and the caller holds no Catalog
C4_AllOrNothing ==
    \A f \in FileArgs :
        (/\ catalogs[f].status # "unbuilt"
         /\ HasDataRows
         /\ \E i \in 1..Len(DataRows) : BadRow(i))
            => /\ catalogs[f].status = "raised"
               /\ catalogs[f].schools = <<>>

\* the second data row is bad, the first is not
C4_Witness ==
    \E f \in FileArgs :
        /\ catalogs[f].status = "raised"
        /\ catalogs[f].error \in {"ValueError", "KeyError"}
        /\ Len(DataRows) = 2
        /\ ~BadRow(1)
        /\ BadRow(2)

\* C5: a built Catalog holds one Record per data row, the i-th from the i-th
\* row, and during the load self.schools changes only by an append at its end
C5_State ==
    \A f \in BuiltArgs :
        /\ Len(catalogs[f].schools) = Len(DataRows)
        /\ \A i \in 1..Len(DataRows) : catalogs[f].schools[i] = School(RowDict(i))

C5_Step ==
    (pc = "rows" /\ pc' = "rows") =>
        \/ schools' = schools
        \/ /\ Len(schools') = Len(schools) + 1
           /\ SubSeq(schools', 1, Len(schools)) = schools

C5_OnePerRow == [](C5_State) /\ [][C5_Step]_vars

C5_Witness ==
    \E f \in BuiltArgs :
        /\ Len(catalogs[f].schools) = 2
        /\ catalogs[f].schools[1] # catalogs[f].schools[2]

\* C6: the queries leave every built Catalog as it is, and a query returns
\* what it returns on the Catalog as first built, whatever was called before
QueryOn(all, c) ==
    CASE c.op = "nearby_schools" -> nearby_schools(all, c.coord, Radius(c))
      [] c.op = "get_schools_by_grade" -> get_schools_by_grade(all, c.grades)
      [] c.op = "get_schools_by_network" -> get_schools_by_network(all, c.network)

C6_Result == call.op # "none" => result = QueryOn(FreshSchools, call)

C6_Frame == \A f \in BuiltArgs : catalogs'[f] = catalogs[f]

C6_QueriesPure == [](C6_Result) /\ [][C6_Frame]_vars

C6_Witness ==
    /\ BuiltArgs = FileArgs
    /\ call.op = "nearby_schools"
    /\ call.self = "other.csv"
    /\ result # <<>>
    /\ Len(result) < Len(catalogs[call.self].schools)

\* C7: the result for a radius is a subsequence of the result for any radius
\* that is at least as large
C7_RadiusMonotone ==
    call.op = "nearby_schools" =>
        \A r2 \in Radii \cup {F(SCALE)} :
            FLe(Radius(call), r2) =>
                IsSubseq(result, nearby_schools(catalogs[call.self].schools, call.coord, r2))

C7_Witness ==
    /\ call.op = "nearby_schools"
    /\ call.given
    /\ call.radius = F(0)
    /\ result # <<>>
    /\ \E r2 \in Radii :
           /\ FLe(call.radius, r2)
           /\ Len(nearby_schools(catalogs[call.self].schools, call.coord, r2)) > Len(result)

\* C8 as amended: the grades are the pieces of the field between its ", "
\* separators, in field order and as they stand (joined by ", " they give the
\* field back, and no piece holds ", "); an empty field gives one empty string
C8_Pieces ==
    \A f \in BuiltArgs : \A i \in 1..Len(catalogs[f].schools) :
        LET raw == RowDict(i)["Grades"]
            grades == catalogs[f].schools[i].grades
        IN  /\ grades # <<>>
            /\ Join(grades, <<",", " ">>) = raw
            /\ \A k \in 1..Len(grades) :
                   \A j \in 1..Len(grades[k]) : ~SepAt(grades[k], j, <<",", " ">>)
            /\ raw = <<>> => grades = << <<>> >>

\* C8 as stated: also, no element begins or ends with white space
C8_Trimmed ==
    /\ C8_Pieces
    /\ \A f \in BuiltArgs : \A i \in 1..Len(catalogs[f].schools) :
           \A k \in 1..Len(catalogs[f].schools[i].grades) :
               Strip(catalogs[f].schools[i].grades[k]) = catalogs[f].schools[i].grades[k]

C8_Witness ==
    \E f \in BuiltArgs :
        /\ Len(catalogs[f].schools) = 1
        /\ Len(catalogs[f].schools[1].grades) = 2
        /\ catalogs[f].schools[1].grades[2] = <<" ", "K">>

\* C9: constructions with different filename arguments end the same way, and
\* the rows read are those of schools.csv
IsSuffix(a, b) == Len(a) <= Len(b) /\ a = SubSeq(b, Len(b) - Len(a) + 1, Len(b))

C10_Url(open, sep, close) ==
    call.op = "show_map" =>
        browser = << "http://maps.google.com/maps?q=" \o open
                       \o Repr(as_degrees(call.self)[1]) \o sep
                       \o Repr(as_degrees(call.self)[2]) \o close >>

C10_Frame == (browser' # browser \/ call' # call) => catalogs' = catalogs

C10_TupleUrl == [](C10_Url("(", ", ", ")")) /\ [][C10_Frame]_vars

\* C10 as stated: the query value is the two numbers and a comma, nothing else
C10_BareUrl == C10_Url("", ",", "")

C10_Witness ==
    /\ call.op = "show_map"
    /\ call.self \in Locations
    /\ ~call.self.latitude.nan
    /\ call.self.latitude.v < 0
    /\ call.self.longitude.v > 0

====
